---- MODULE Spec2Model ----
(***************************************************************************)
(* Model of backend/app.py: the booking backend of a gaming lounge.        *)
(*                                                                         *)
(* The document store (Firestore) is the only state.  Each collection is   *)
(* a function from document ids to documents, a singleton document is      *)
(* either Absent or a function from field names to values.  A request is   *)
(* a credential (the claims of the bearer token, or none) plus the JSON    *)
(* body.  A handler is an action on the store; the response it sends (the  *)
(* HTTP status and the error it carries) is a function of the request and  *)
(* of the store it read, given by the handler's ...Response operator.      *)
(*                                                                         *)
(* Strings whose characters the code looks at (the time labels) are        *)
(* sequences of one-character strings, so that formatting a slot           *)
(* (f"{hour:02d}:00") and parsing a time (int(time.split(':')[0])) are     *)
(* computed, not assumed.  Wall-clock stamps (created_at, updated_at) and  *)
(* the name and phone copied next to the email are left out: no handler    *)
(* reads them.                                                             *)
(***************************************************************************)
EXTENDS Integers, Sequences, FiniteSets, TLC

VARIABLES
    bookings,            \* collection 'bookings': id -> document
    nextId,              \* the next auto-generated booking id (ids are never reused)
    setup_availability,  \* document setup_availability/current, or Absent
    pricing,             \* document pricing/current, or Absent
    users,               \* collection 'users': id -> document
    nextUser,            \* the next auto-generated user id
    pending,             \* per worker: the request between its reads and its write
    quote                \* the last call of calculate_price, or of
                         \* get_available_time_slots, and what it returned

vars == <<bookings, nextId, setup_availability, pricing, users, nextUser, pending, quote>>

(***************************************************************************)
(* Bounds of the model.                                                    *)
(***************************************************************************)
MaxBookings == 2     \* booking documents ever created in one behaviour
MaxDuration == 3     \* hours asked of calculate_price
MaxPlayers == 3      \* players asked of calculate_price
MaxUsers == 3        \* user documents ever created in one behaviour of SpecRegister

(***************************************************************************)
(* Strings as character sequences.                                         *)
(***************************************************************************)
Digits == <<"0", "1", "2", "3", "4", "5", "6", "7", "8", "9">>

DigitChar(n) == Digits[n + 1]

IsDigit(c) == \E i \in 1..10 : Digits[i] = c

DigitVal(c) == (CHOOSE i \in 1..10 : Digits[i] = c) - 1

Range(s) == {s[i] : i \in DOMAIN s}

\* f"{hour:02d}:00"
FormatSlot(hour) ==
    <<DigitChar((hour \div 10) % 10), DigitChar(hour % 10), ":", "0", "0">>

\* s.split(':')[0]: the characters before the first ':' (all of s without one)
SplitFirst(s) ==
    IF \E i \in DOMAIN s : s[i] = ":"
    THEN SubSeq(s, 1, (CHOOSE i \in DOMAIN s :
                          s[i] = ":" /\ \A j \in 1..(i - 1) : s[j] # ":") - 1)
    ELSE s

RECURSIVE DigitsValue(_)
DigitsValue(s) ==
    IF s = <<>> THEN 0
    ELSE 10 * DigitsValue(SubSeq(s, 1, Len(s) - 1)) + DigitVal(s[Len(s)])

\* the outcome of a call: a value, or the exception it raised
Returned(v) == [raised |-> "", value |-> v]

Raised(e) == [raised |-> e, value |-> 0]

\* int(s) for a str s: an optional sign and decimal digits, else ValueError
PyInt(s) ==
    LET signed == s # <<>> /\ s[1] \in {"-", "+"}
        body == IF signed THEN Tail(s) ELSE s
    IN  IF body = <<>> \/ \E i \in DOMAIN body : ~IsDigit(body[i])
        THEN Raised("ValueError")
        ELSE IF signed /\ s[1] = "-" THEN Returned(0 - DigitsValue(body))
        ELSE Returned(DigitsValue(body))

(***************************************************************************)
(* The store's documents.                                                  *)
(***************************************************************************)
Absent == [exists |-> FALSE]

SetupKeys == {"ps5_setup_1", "ps5_setup_2", "racing_simulator", "pool_table"}

\* the default of get_available_time_slots and get_setup_availability
default_availability == [k \in SetupKeys |-> TRUE]

\* the default of calculate_price and get_pricing
default_pricing ==
    [k \in {"squad", "individual", "ps5_specific", "racing", "pool"} |->
        CASE k = "squad" -> 400
          [] k = "individual" -> 120
          [] k = "ps5_specific" -> 400
          [] k = "racing" -> 150
          [] k = "pool" -> 400]

\* DocumentReference.update(data) on an existing document: the fields of data
\* replace or extend the document's, the others stay
Merge(doc, data) ==
    [k \in DOMAIN doc \cup DOMAIN data |-> IF k \in DOMAIN data THEN data[k] ELSE doc[k]]

(***************************************************************************)
(* Credentials and responses.                                              *)
(***************************************************************************)
NoCredential == [bearer |-> FALSE]

\* a signed token with the given claims; exp is "future" or "past"
Token(payload) == [bearer |-> TRUE, payload |-> payload]

\* admin_login: {'admin': True, 'iat', 'exp'}
AdminToken == Token([admin |-> TRUE, exp |-> "future"])

\* user_register, user_login: {'user_id', 'email', 'name', 'exp'}
UserToken(u) == Token([user_id |-> u, exp |-> "future"])

ExpiredAdminToken == Token([admin |-> TRUE, exp |-> "past"])

Resp(code, error) == [code |-> code, error |-> error]

Passed == Resp(0, "")

\* admin_required without 'require': ['admin', 'exp'] and without its test of
\* the admin claim: any bearer token that has not expired is let through
admin_required_any_token(cred) ==
    IF ~cred.bearer THEN Resp(401, "Bearer token required")
    ELSE IF "exp" \in DOMAIN cred.payload /\ cred.payload.exp = "past"
    THEN Resp(401, "Token has expired")
    ELSE Passed

\* the decorator admin_required: Passed when the handler is called
admin_required(cred) ==
    IF ~cred.bearer THEN Resp(401, "Bearer token required")
    ELSE IF ~({"admin", "exp"} \subseteq DOMAIN cred.payload)
    THEN Resp(401, "Invalid token")
    ELSE IF cred.payload.exp = "past" THEN Resp(401, "Token has expired")
    ELSE IF ~cred.payload.admin THEN Resp(403, "Admin access required")
    ELSE Passed

\* the decorator user_required: Passed when the handler is called
user_required(cred) ==
    IF ~cred.bearer THEN Resp(401, "Bearer token required")
    ELSE IF "exp" \in DOMAIN cred.payload /\ cred.payload.exp = "past"
    THEN Resp(401, "Token has expired")
    ELSE IF "user_id" \notin DOMAIN cred.payload
    THEN Resp(403, "User authentication required")
    ELSE Passed

(***************************************************************************)
(* get_available_time_slots                                                *)
(***************************************************************************)
\* range(9, 24) in place of range(10, 24)
all_slots_from_nine == [i \in 1..15 |-> FormatSlot(i + 8)]

\* all_slots = [f"{hour:02d}:00" for hour in range(10, 24)]
all_slots == [i \in 1..14 |-> FormatSlot(i + 9)]

\* bookings_ref.where('date', '==', date).get(), as the ids in ascending order
RECURSIVE IdsInOrder(_)
IdsInOrder(ids) ==
    IF ids = {} THEN <<>>
    ELSE LET m == CHOOSE x \in ids : \A y \in ids : x <= y
         IN  <<m>> \o IdsInOrder(ids \ {m})

BookingsOn(bks, date) == IdsInOrder({id \in DOMAIN bks : bks[id].date = date})

\* the counting loop adding a booking to every slot it runs over, from its
\* time for its duration
CountBookingWholeDuration(slot_bookings, booking_data) ==
    IF booking_data.status \notin {"cancelled"}
    THEN LET setup == booking_data.setup
             covered == {all_slots[i] : i \in {k \in DOMAIN all_slots :
                            \E j \in DOMAIN all_slots :
                                /\ all_slots[j] = booking_data.time
                                /\ k \in j..(j + booking_data.duration - 1)}}
         IN  [slot \in DOMAIN slot_bookings |->
                 IF slot \in covered
                 THEN LET old == slot_bookings[slot]
                          n == IF setup \in DOMAIN old.setups THEN old.setups[setup] ELSE 0
                      IN  [total |-> old.total + 1,
                           setups |-> [s \in DOMAIN old.setups \cup {setup} |->
                                          IF s = setup THEN n + 1 ELSE old.setups[s]]]
                 ELSE slot_bookings[slot]]
    ELSE slot_bookings

\* the counting loop counting the bookings whose status is 'confirmed' only
CountBookingConfirmedOnly(slot_bookings, booking_data) ==
    IF booking_data.status = "confirmed"
    THEN LET slot == booking_data.time
             setup == booking_data.setup
         IN  IF slot \in DOMAIN slot_bookings
             THEN LET old == slot_bookings[slot]
                      n == IF setup \in DOMAIN old.setups THEN old.setups[setup] ELSE 0
                  IN  [slot_bookings EXCEPT ![slot] =
                          [total |-> old.total + 1,
                           setups |-> [s \in DOMAIN old.setups \cup {setup} |->
                                          IF s = setup THEN n + 1 ELSE old.setups[s]]]]
             ELSE slot_bookings
    ELSE slot_bookings

\* the counting loop without its test of the status
CountBookingAnyStatus(slot_bookings, booking_data) ==
    LET slot == booking_data.time
        setup == booking_data.setup
    IN  IF slot \in DOMAIN slot_bookings
        THEN LET old == slot_bookings[slot]
                 n == IF setup \in DOMAIN old.setups THEN old.setups[setup] ELSE 0
             IN  [slot_bookings EXCEPT ![slot] =
                     [total |-> old.total + 1,
                      setups |-> [s \in DOMAIN old.setups \cup {setup} |->
                                     IF s = setup THEN n + 1 ELSE old.setups[s]]]]
        ELSE slot_bookings

\* one turn of the counting loop over the date's bookings
CountBooking(slot_bookings, booking_data) ==
    IF booking_data.status \notin {"cancelled"}
    THEN LET slot == booking_data.time
             setup == booking_data.setup
         IN  IF slot \in DOMAIN slot_bookings
             THEN LET old == slot_bookings[slot]
                      n == IF setup \in DOMAIN old.setups THEN old.setups[setup] ELSE 0
                  IN  [slot_bookings EXCEPT ![slot] =
                          [total |-> old.total + 1,
                           setups |-> [s \in DOMAIN old.setups \cup {setup} |->
                                          IF s = setup THEN n + 1 ELSE old.setups[s]]]]
             ELSE slot_bookings
    ELSE slot_bookings

RECURSIVE CountBookings(_, _, _)
CountBookings(bks, ids, slot_bookings) ==
    IF ids = <<>> THEN slot_bookings
    ELSE CountBookings(bks, Tail(ids), CountBooking(slot_bookings, bks[Head(ids)]))

\* slot_bookings after the counting loop
SlotBookings(bks, date) ==
    CountBookings(bks, BookingsOn(bks, date),
                  [slot \in Range(all_slots) |-> [total |-> 0, setups |-> <<>>]])

\* setup.startswith('ps5'), over the setup names of the model
StartsWithPs5(setup) == setup \in {"ps5_setup_1", "ps5_setup_2", "ps5_specific"}

\* the loop with each 'continue' read as leaving the slot out
SetupLoopExcludes(setups) ==
    \A setup \in DOMAIN setups :
        /\ ~(StartsWithPs5(setup) /\ setups[setup] >= 2)
        /\ ~(setup \in {"racing_simulator", "pool_table"} /\ setups[setup] >= 1)

\* the loop over slot_bookings[slot]['setups']: each turn either continues or
\* falls through to the next turn; TRUE when control reaches the append after it
SetupLoopReachesAppend(setups) ==
    \A setup \in DOMAIN setups :
        IF StartsWithPs5(setup) /\ setups[setup] >= 2 THEN TRUE
        ELSE IF setup \in {"racing_simulator", "pool_table"} /\ setups[setup] >= 1 THEN TRUE
        ELSE TRUE

\* no default for an absent record: nothing enabled
AvailableSetupsNoDefault(doc) ==
    IF doc = Absent THEN [k \in SetupKeys |-> FALSE] ELSE doc

\* available_setups: the stored record, or the default when it is absent
AvailableSetups(doc) == IF doc = Absent THEN default_availability ELSE doc

\* every key counted, enabled or not
TotalSetupsAllKeys(doc) == Cardinality(DOMAIN AvailableSetups(doc))

\* the count taken from the default flags, whatever the record holds
TotalSetupsOfDefault(doc) ==
    Cardinality({k \in DOMAIN default_availability : default_availability[k]})

\* total_setups = sum(1 for setup, available in available_setups.items() if available)
TotalSetups(doc) ==
    Cardinality({k \in DOMAIN AvailableSetups(doc) : AvailableSetups(doc)[k]})

\* <= in place of <
SlotHasRoomOrFull(total, total_setups) == total <= total_setups

\* if slot_bookings[slot]['total'] < total_setups
SlotHasRoom(total, total_setups) == total < total_setups

AvailableSlots(bks, doc, date) ==
    LET slot_bookings == SlotBookings(bks, date)
        total_setups == TotalSetups(doc)
        Keep(slot) == /\ SlotHasRoom(slot_bookings[slot].total, total_setups)
                      /\ SetupLoopReachesAppend(slot_bookings[slot].setups)
    IN  SelectSeq(all_slots, Keep)

get_available_time_slots(date) == AvailableSlots(bookings, setup_availability, date)

(***************************************************************************)
(* calculate_price                                                         *)
(***************************************************************************)
BasePrices(doc) == IF doc = Absent THEN default_pricing ELSE doc

\* the players multiplied in for every setup type
PriceOfPerPlayer(doc, setup_type, duration, players) ==
    LET base_prices == BasePrices(doc)
    IN  IF setup_type \notin DOMAIN base_prices THEN Raised("KeyError")
        ELSE Returned(base_prices[setup_type] * players * duration)

\* a setup type the table lacks priced at nothing instead of raising
PriceOfUnknownFree(doc, setup_type, duration, players) ==
    LET base_prices == BasePrices(doc)
    IN  IF setup_type \notin DOMAIN base_prices THEN Returned(0)
        ELSE IF setup_type = "individual"
        THEN Returned(base_prices[setup_type] * players * duration)
        ELSE Returned(base_prices[setup_type] * duration)

\* base_prices[setup_type] raises KeyError for a key the table lacks
PriceOf(doc, setup_type, duration, players) ==
    LET base_prices == BasePrices(doc)
    IN  IF setup_type \notin DOMAIN base_prices THEN Raised("KeyError")
        ELSE IF setup_type = "individual"
        THEN Returned(base_prices[setup_type] * players * duration)
        ELSE Returned(base_prices[setup_type] * duration)

calculate_price(setup_type, duration, players) ==
    PriceOf(pricing, setup_type, duration, players)

(***************************************************************************)
(* Requests of the model.                                                  *)
(***************************************************************************)
T1400 == <<"1", "4", ":", "0", "0">>
T1500 == <<"1", "5", ":", "0", "0">>
T0900 == <<"0", "9", ":", "0", "0">>
T2400 == <<"2", "4", ":", "0", "0">>
T2330 == <<"2", "3", ":", "3", "0">>
TNoon == <<"n", "o", "o", "n">>

Dates == {"2025-06-01", "2025-06-02"}

\* the places asked for: two slots of one day and one slot of another
Targets == {<<"2025-06-01", T1400>>, <<"2025-06-01", T1500>>, <<"2025-06-02", T1400>>}

\* labels that are no slot: an hour out of range, minutes that are not 00,
\* no number at all
OddTimes == {T0900, T2330, TNoon}

Creds == {NoCredential, AdminToken, UserToken(1), UserToken(2)}

\* the callers of the admin endpoints: without a token, an admin, a user
AdminCreds == {NoCredential, AdminToken, UserToken(1)}

\* the Authorization headers without an admin claim: none, the tokens of the
\* two registered users, and a signed token that carries an expiry only
LacksAdminCreds ==
    {NoCredential, UserToken(1), UserToken(2), Token([exp |-> "future"])}

BookingIds == 1..MaxBookings

required_fields == {"setup", "players", "date", "time", "duration"}

\* the bodies of POST /api/bookings: complete ones, one at a label that is no
\* slot, one with a setup the rate table lacks, and one without a time
CreateBodies ==
    {[setup |-> "individual", players |-> 3, date |-> t[1], time |-> t[2],
      duration |-> 2] : t \in Targets \cup {<<"2025-06-01", T2330>>}}
    \cup {[setup |-> "vr", players |-> 3, date |-> "2025-06-01", time |-> T1400,
           duration |-> 2],
          [setup |-> "individual", players |-> 3, date |-> "2025-06-01",
           duration |-> 2]}

\* the bodies of PUT /api/bookings/<id> and PUT /api/user/bookings/<id>:
\* cancel, reschedule, and bodies that are neither
CancelBody == [status |-> "cancelled"]

RescheduleBodies ==
    {[date |-> t[1], time |-> t[2]] : t \in Targets}
    \cup [date : {"2025-06-01"}, time : OddTimes]

UpdateBodies ==
    {CancelBody, [status |-> "confirmed"]} \cup RescheduleBodies

\* the bodies of PUT /api/setup-availability
SetupBodies ==
    {[ps5_setup_2 |-> FALSE, racing_simulator |-> FALSE, pool_table |-> FALSE],
     [ps5_setup_2 |-> TRUE, racing_simulator |-> TRUE, pool_table |-> TRUE]}

(***************************************************************************)
(* create_booking                                                          *)
(***************************************************************************)
\* create_booking without its availability check
CreateOutcomeUnchecked(cred, data) ==
    IF user_required(cred) # Passed THEN [resp |-> user_required(cred)]
    ELSE IF \E field \in required_fields : field \notin DOMAIN data
    THEN [resp |-> Resp(400, "Missing required field")]
    ELSE LET price == calculate_price(data.setup, data.duration, data.players)
             user_id == cred.payload.user_id
         IN  IF price.raised # "" THEN [resp |-> Resp(500, price.raised)]
             ELSE [resp |-> Passed,
                   doc |-> [user_id |-> user_id,
                            email |-> users[user_id].email,
                            setup |-> data.setup,
                            players |-> data.players,
                            date |-> data.date,
                            time |-> data.time,
                            duration |-> data.duration,
                            price |-> price.value,
                            status |-> "confirmed"]]

\* what create_booking decides from its reads: a response, or (resp = Passed)
\* the document it goes on to write
CreateOutcome(cred, data) ==
    IF user_required(cred) # Passed THEN [resp |-> user_required(cred)]
    ELSE IF \E field \in required_fields : field \notin DOMAIN data
    THEN [resp |-> Resp(400, "Missing required field")]
    ELSE IF data.time \notin Range(get_available_time_slots(data.date))
    THEN [resp |-> Resp(400, "Selected time slot is not available")]
    ELSE LET price == calculate_price(data.setup, data.duration, data.players)
             user_id == cred.payload.user_id
         IN  IF price.raised # "" THEN [resp |-> Resp(500, price.raised)]
             ELSE IF user_id \notin DOMAIN users THEN [resp |-> Resp(500, "TypeError")]
             ELSE [resp |-> Passed,
                   doc |-> [user_id |-> user_id,
                            email |-> users[user_id].email,
                            setup |-> data.setup,
                            players |-> data.players,
                            date |-> data.date,
                            time |-> data.time,
                            duration |-> data.duration,
                            price |-> price.value,
                            status |-> "confirmed"]]

\* the response of create_booking
CreateResponse(cred, data) ==
    LET out == CreateOutcome(cred, data)
    IN  IF out.resp = Passed THEN Resp(201, "") ELSE out.resp

\* booking_ref = db.collection('bookings').document(); booking_ref.set(booking_data)
AddBooking(doc) ==
    /\ nextId <= MaxBookings
    /\ bookings' = [id \in DOMAIN bookings \cup {nextId} |->
                       IF id = nextId THEN doc ELSE bookings[id]]
    /\ nextId' = nextId + 1

create_booking(cred, data) ==
    LET out == CreateOutcome(cred, data)
    IN  /\ IF out.resp = Passed
           THEN AddBooking(out.doc)
           ELSE UNCHANGED <<bookings, nextId>>
        /\ UNCHANGED <<setup_availability, pricing, users, nextUser, pending, quote>>

(***************************************************************************)
(* update_booking, update_user_booking                                     *)
(***************************************************************************)
\* hour = int(data['time'].split(':')[0]), then the range check; the bare
\* except turns a failed int() into 'Invalid time format'
HourCheck(time) ==
    LET hour == PyInt(SplitFirst(time))
    IN  IF hour.raised # "" THEN Resp(400, "Invalid time format")
        ELSE IF hour.value < 10 \/ hour.value > 23
        THEN Resp(400, "Invalid time slot. Hours must be between 10 AM and 11 PM")
        ELSE Passed

\* a reschedule that also writes the price anew
UpdateFieldsRepriced(data) ==
    IF "status" \in DOMAIN data /\ data.status = "cancelled"
    THEN [resp |-> Passed, update |-> [status |-> "cancelled"]]
    ELSE IF "date" \in DOMAIN data /\ "time" \in DOMAIN data
    THEN IF HourCheck(data.time) # Passed THEN [resp |-> HourCheck(data.time)]
         ELSE IF data.time \notin Range(get_available_time_slots(data.date))
         THEN [resp |-> Resp(400, "Selected time slot is not available")]
         ELSE [resp |-> Passed,
               update |-> [date |-> data.date, time |-> data.time,
                           status |-> "rescheduled", price |-> 0]]
    ELSE [resp |-> Resp(400, "Invalid update request")]

\* the update handlers with the availability check before the check of the hour
UpdateFieldsAvailabilityFirst(data) ==
    IF "status" \in DOMAIN data /\ data.status = "cancelled"
    THEN [resp |-> Passed, update |-> [status |-> "cancelled"]]
    ELSE IF "date" \in DOMAIN data /\ "time" \in DOMAIN data
    THEN IF data.time \notin Range(get_available_time_slots(data.date))
         THEN [resp |-> Resp(400, "Selected time slot is not available")]
         ELSE IF HourCheck(data.time) # Passed THEN [resp |-> HourCheck(data.time)]
         ELSE [resp |-> Passed,
               update |-> [date |-> data.date, time |-> data.time,
                           status |-> "rescheduled"]]
    ELSE [resp |-> Resp(400, "Invalid update request")]

\* the update handlers without the availability check of a reschedule
UpdateFieldsUnchecked(data) ==
    IF "status" \in DOMAIN data /\ data.status = "cancelled"
    THEN [resp |-> Passed, update |-> [status |-> "cancelled"]]
    ELSE IF "date" \in DOMAIN data /\ "time" \in DOMAIN data
    THEN IF HourCheck(data.time) # Passed THEN [resp |-> HourCheck(data.time)]
         ELSE [resp |-> Passed,
               update |-> [date |-> data.date, time |-> data.time,
                           status |-> "rescheduled"]]
    ELSE [resp |-> Resp(400, "Invalid update request")]

\* the two branches both update handlers share, from "Handle cancellation" on:
\* a response, or (resp = Passed) the fields booking_ref.update() is given
UpdateFields(data) ==
    IF "status" \in DOMAIN data /\ data.status = "cancelled"
    THEN [resp |-> Passed, update |-> [status |-> "cancelled"]]
    ELSE IF "date" \in DOMAIN data /\ "time" \in DOMAIN data
    THEN IF HourCheck(data.time) # Passed THEN [resp |-> HourCheck(data.time)]
         ELSE IF data.time \notin Range(get_available_time_slots(data.date))
         THEN [resp |-> Resp(400, "Selected time slot is not available")]
         ELSE [resp |-> Passed,
               update |-> [date |-> data.date, time |-> data.time,
                           status |-> "rescheduled"]]
    ELSE [resp |-> Resp(400, "Invalid update request")]

\* update_booking leaving the booking it moves out of the availability tally
AdminUpdateOutcomeExcludingSelf(cred, booking_id, data) ==
    IF admin_required(cred) # Passed THEN [resp |-> admin_required(cred)]
    ELSE IF booking_id \notin DOMAIN bookings
    THEN [resp |-> Resp(404, "Booking not found")]
    ELSE IF "status" \in DOMAIN data /\ data.status = "cancelled"
    THEN [resp |-> Passed, update |-> [status |-> "cancelled"]]
    ELSE IF "date" \in DOMAIN data /\ "time" \in DOMAIN data
    THEN IF HourCheck(data.time) # Passed THEN [resp |-> HourCheck(data.time)]
         ELSE IF data.time \notin
                     Range(AvailableSlots([id \in DOMAIN bookings \ {booking_id} |-> bookings[id]],
                                          setup_availability, data.date))
         THEN [resp |-> Resp(400, "Selected time slot is not available")]
         ELSE [resp |-> Passed,
               update |-> [date |-> data.date, time |-> data.time,
                           status |-> "rescheduled"]]
    ELSE [resp |-> Resp(400, "Invalid update request")]

\* update_booking refusing the cancel of a booking that is cancelled already
AdminUpdateOutcomeCancelOnce(cred, booking_id, data) ==
    IF admin_required(cred) # Passed THEN [resp |-> admin_required(cred)]
    ELSE IF booking_id \notin DOMAIN bookings
    THEN [resp |-> Resp(404, "Booking not found")]
    ELSE IF data = [status |-> "cancelled"] /\ bookings[booking_id].status = "cancelled"
    THEN [resp |-> Resp(400, "Booking already cancelled")]
    ELSE UpdateFields(data)

\* what update_booking decides from its reads
AdminUpdateOutcome(cred, booking_id, data) ==
    IF admin_required(cred) # Passed THEN [resp |-> admin_required(cred)]
    ELSE IF booking_id \notin DOMAIN bookings
    THEN [resp |-> Resp(404, "Booking not found")]
    ELSE UpdateFields(data)

\* update_user_booking without its test of the owner
UserUpdateOutcomeAnyOwner(cred, booking_id, data) ==
    IF user_required(cred) # Passed THEN [resp |-> user_required(cred)]
    ELSE IF booking_id \notin DOMAIN bookings
    THEN [resp |-> Resp(404, "Booking not found")]
    ELSE UpdateFields(data)

\* what update_user_booking decides from its reads
UserUpdateOutcome(cred, booking_id, data) ==
    IF user_required(cred) # Passed THEN [resp |-> user_required(cred)]
    ELSE IF booking_id \notin DOMAIN bookings
    THEN [resp |-> Resp(404, "Booking not found")]
    ELSE IF bookings[booking_id].user_id # cred.payload.user_id
    THEN [resp |-> Resp(403, "Unauthorized access")]
    ELSE UpdateFields(data)

\* the responses of update_booking and update_user_booking
AdminUpdateResponse(cred, booking_id, data) ==
    LET out == AdminUpdateOutcome(cred, booking_id, data)
    IN  IF out.resp = Passed THEN Resp(200, "") ELSE out.resp

UserUpdateResponse(cred, booking_id, data) ==
    LET out == UserUpdateOutcome(cred, booking_id, data)
    IN  IF out.resp = Passed THEN Resp(200, "") ELSE out.resp

\* booking_ref.update(fields)
ApplyUpdate(booking_id, out) ==
    IF out.resp = Passed /\ booking_id \in DOMAIN bookings
    THEN bookings' = [bookings EXCEPT ![booking_id] = Merge(@, out.update)]
    ELSE UNCHANGED bookings

update_booking(cred, booking_id, data) ==
    /\ ApplyUpdate(booking_id, AdminUpdateOutcome(cred, booking_id, data))
    /\ UNCHANGED <<nextId, setup_availability, pricing, users, nextUser, pending, quote>>

update_user_booking(cred, booking_id, data) ==
    /\ ApplyUpdate(booking_id, UserUpdateOutcome(cred, booking_id, data))
    /\ UNCHANGED <<nextId, setup_availability, pricing, users, nextUser, pending, quote>>

(***************************************************************************)
(* delete_booking, delete_user_booking                                     *)
(***************************************************************************)
\* the response of delete_booking
AdminDeleteResponse(cred, booking_id) ==
    IF admin_required(cred) # Passed THEN admin_required(cred)
    ELSE IF booking_id \notin DOMAIN bookings THEN Resp(404, "Booking not found")
    ELSE Resp(200, "")

\* the response of delete_user_booking
UserDeleteResponse(cred, booking_id) ==
    IF user_required(cred) # Passed THEN user_required(cred)
    ELSE IF booking_id \notin DOMAIN bookings THEN Resp(404, "Booking not found")
    ELSE IF bookings[booking_id].user_id # cred.payload.user_id
    THEN Resp(403, "Unauthorized access")
    ELSE Resp(200, "")

\* a delete that takes the owner's other bookings along
RemoveBookingsOfOwner(booking_id, response) ==
    IF response = Resp(200, "")
    THEN bookings' = [id \in {i \in DOMAIN bookings :
                                 bookings[i].user_id # bookings[booking_id].user_id}
                         |-> bookings[id]]
    ELSE UNCHANGED bookings

\* booking_ref.delete(), reached when the handler answers 200
RemoveBooking(booking_id, response) ==
    IF response = Resp(200, "")
    THEN bookings' = [id \in DOMAIN bookings \ {booking_id} |-> bookings[id]]
    ELSE UNCHANGED bookings

delete_booking(cred, booking_id) ==
    /\ RemoveBooking(booking_id, AdminDeleteResponse(cred, booking_id))
    /\ UNCHANGED <<nextId, setup_availability, pricing, users, nextUser, pending, quote>>

delete_user_booking(cred, booking_id) ==
    /\ RemoveBooking(booking_id, UserDeleteResponse(cred, booking_id))
    /\ UNCHANGED <<nextId, setup_availability, pricing, users, nextUser, pending, quote>>

(***************************************************************************)
(* check_booking: GET /api/bookings/check, open to everyone                *)
(***************************************************************************)
\* the id parameter: a booking id, or 0 for a request without one
LookupIds == BookingIds \cup {0}

\* the email parameter: the registered ones, one that differs by case only,
\* and "" for a request without one
CheckEmails == {"a@example.com", "b@example.com", "A@example.com", ""}

\* check_booking answering 'not found' when the email differs
CheckResponseHidesMismatch(booking_id, email) ==
    IF booking_id = 0 \/ email = ""
    THEN [code |-> 400, error |-> "Booking ID and email are required"]
    ELSE IF booking_id \notin DOMAIN bookings \/ bookings[booking_id].email # email
    THEN [code |-> 404, error |-> "Booking not found"]
    ELSE [code |-> 200, error |-> "", booking |-> bookings[booking_id]]

\* the response of check_booking
CheckResponse(booking_id, email) ==
    IF booking_id = 0 \/ email = ""
    THEN [code |-> 400, error |-> "Booking ID and email are required"]
    ELSE IF booking_id \notin DOMAIN bookings
    THEN [code |-> 404, error |-> "Booking not found"]
    ELSE IF bookings[booking_id].email # email
    THEN [code |-> 403, error |-> "Invalid credentials"]
    ELSE [code |-> 200, error |-> "", booking |-> bookings[booking_id]]

\* check_booking reads only
check_booking(booking_id, email) ==
    /\ CheckResponse(booking_id, email).code \in {200, 400, 403, 404}
    /\ UNCHANGED vars

(***************************************************************************)
(* get_availability, get_setup_availability, update_setup_availability     *)
(***************************************************************************)
\* the response of GET /api/availability?date=: the code and the slots listed
AvailabilityResponse(cred, date) ==
    IF user_required(cred) # Passed
    THEN [code |-> user_required(cred).code, available_slots |-> <<>>]
    ELSE [code |-> 200, available_slots |-> get_available_time_slots(date)]

\* GET /api/availability reads only
get_availability(cred, date) ==
    /\ AvailabilityResponse(cred, date).code \in {200, 401, 403}
    /\ UNCHANGED vars

\* GET /api/setup-availability: stores the default when the record is absent
get_setup_availability ==
    /\ setup_availability' =
           IF setup_availability = Absent THEN default_availability
           ELSE setup_availability
    /\ UNCHANGED <<bookings, nextId, pricing, users, nextUser, pending, quote>>

\* the response of PUT /api/setup-availability: setup_ref.update(data) raises
\* NotFound on an absent record, which the handler turns into a 500
SetupUpdateResponse(cred) ==
    IF admin_required(cred) # Passed THEN admin_required(cred)
    ELSE IF setup_availability = Absent THEN Resp(500, "NotFound")
    ELSE Resp(200, "")

update_setup_availability(cred, data) ==
    /\ IF SetupUpdateResponse(cred) = Resp(200, "")
       THEN setup_availability' = Merge(setup_availability, data)
       ELSE UNCHANGED setup_availability
    /\ UNCHANGED <<bookings, nextId, pricing, users, nextUser, pending, quote>>

(***************************************************************************)
(* get_pricing, update_pricing, and a call of calculate_price              *)
(***************************************************************************)
\* the bodies of PUT /api/pricing
PricingBodies == {[individual |-> 150], [squad |-> 500, racing_simulator |-> 200]}

\* the setup types asked of calculate_price
SetupTypes ==
    {"squad", "individual", "ps5_specific", "racing", "pool", "racing_simulator", "vr"}

\* GET /api/pricing: stores the default when the record is absent
get_pricing ==
    /\ pricing' = IF pricing = Absent THEN default_pricing ELSE pricing
    /\ UNCHANGED <<bookings, nextId, setup_availability, users, nextUser, pending, quote>>

\* the response of PUT /api/pricing: pricing_ref.update(data) raises NotFound
\* on an absent record, which the handler turns into a 500
PricingUpdateResponse(cred) ==
    IF admin_required(cred) # Passed THEN admin_required(cred)
    ELSE IF pricing = Absent THEN Resp(500, "NotFound")
    ELSE Resp(200, "")

update_pricing(cred, data) ==
    /\ IF PricingUpdateResponse(cred) = Resp(200, "")
       THEN pricing' = Merge(pricing, data)
       ELSE UNCHANGED pricing
    /\ UNCHANGED <<bookings, nextId, setup_availability, users, nextUser, pending, quote>>

\* calculate_price(setup_type, duration, players) is called and returns
PriceQuote(setup_type, duration, players) ==
    /\ quote' = [setup_type |-> setup_type, duration |-> duration, players |-> players,
                 result |-> calculate_price(setup_type, duration, players)]
    /\ UNCHANGED <<bookings, nextId, setup_availability, pricing, users, nextUser, pending>>

\* a call of get_available_time_slots, kept with what it returned
ResolveQuote(date) ==
    /\ quote' = [date |-> date, result |-> get_available_time_slots(date)]
    /\ UNCHANGED <<bookings, nextId, setup_availability, pricing, users, nextUser, pending>>

(***************************************************************************)
(* create_booking and update_user_booking as the store sees them: the      *)
(* reads (the availability check among them), and later the write.  Other  *)
(* requests may be served in between.                                      *)
(***************************************************************************)
Procs == {"w1", "w2"}

Idle == [op |-> "idle"]

\* the creates that passed their check and have not written yet
PendingCreates == {p \in Procs : pending[p].op = "create"}

\* create_booking up to the price: the reads and the checks
create_check(p, cred, data) ==
    LET out == CreateOutcome(cred, data)
    IN  /\ pending[p] = Idle
        /\ nextId + Cardinality(PendingCreates) <= MaxBookings
        /\ pending' = IF out.resp = Passed
                      THEN [pending EXCEPT ![p] = [op |-> "create", doc |-> out.doc]]
                      ELSE pending
        /\ UNCHANGED <<bookings, nextId, setup_availability, pricing, users, nextUser, quote>>

\* create_booking from booking_ref.set on
create_write(p) ==
    /\ pending[p].op = "create"
    /\ AddBooking(pending[p].doc)
    /\ pending' = [pending EXCEPT ![p] = Idle]
    /\ UNCHANGED <<setup_availability, pricing, users, nextUser, quote>>

\* update_user_booking up to update_data: the reads and the checks
update_check(p, cred, booking_id, data) ==
    LET out == UserUpdateOutcome(cred, booking_id, data)
    IN  /\ pending[p] = Idle
        /\ pending' = IF out.resp = Passed
                      THEN [pending EXCEPT ![p] =
                               [op |-> "update", booking_id |-> booking_id, out |-> out]]
                      ELSE pending
        /\ UNCHANGED <<bookings, nextId, setup_availability, pricing, users, nextUser, quote>>

\* update_user_booking from booking_ref.update on
update_write(p) ==
    /\ pending[p].op = "update"
    /\ ApplyUpdate(pending[p].booking_id, pending[p].out)
    /\ pending' = [pending EXCEPT ![p] = Idle]
    /\ UNCHANGED <<nextId, setup_availability, pricing, users, nextUser, quote>>

(***************************************************************************)
(* user_register: POST /api/user/register, open to everyone.  The handler  *)
(* reads the users with the email, then writes the new user; requests are  *)
(* served side by side, so it is two steps of a worker.                    *)
(***************************************************************************)
RegisterEmails == {"a@example.com", "b@example.com", "c@example.com"}

\* the bodies of POST /api/user/register: complete ones and one without phone
RegisterBodies ==
    {[email |-> e, password |-> "pw", name |-> "n", phone |-> "1"] : e \in RegisterEmails}
    \cup {[email |-> "a@example.com", password |-> "pw", name |-> "n"]}

\* data.get(key): None (here "") for a key the body lacks
Get(data, key) == IF key \in DOMAIN data THEN data[key] ELSE ""

\* what user_register decides from its reads
RegisterOutcome(data) ==
    IF \E key \in {"email", "password", "name", "phone"} : Get(data, key) = ""
    THEN [resp |-> Resp(400, "All fields are required")]
    ELSE IF \E u \in DOMAIN users : users[u].email = Get(data, "email")
    THEN [resp |-> Resp(400, "User already exists")]
    ELSE [resp |-> Passed, doc |-> [email |-> Get(data, "email")]]

\* the response of user_register
RegisterResponse(data) ==
    LET out == RegisterOutcome(data)
    IN  IF out.resp = Passed THEN Resp(201, "") ELSE out.resp

\* user_ref = db.collection('users').document(); user_ref.set(user_data)
AddUser(doc) ==
    /\ nextUser <= MaxUsers
    /\ users' = [u \in DOMAIN users \cup {nextUser} |->
                    IF u = nextUser THEN doc ELSE users[u]]
    /\ nextUser' = nextUser + 1

\* the registrations that passed their check and have not written yet
PendingRegisters == {p \in Procs : pending[p].op = "register"}

\* user_register up to the hash: the reads and the checks
register_check(p, data) ==
    LET out == RegisterOutcome(data)
    IN  /\ pending[p] = Idle
        /\ nextUser + Cardinality(PendingRegisters) <= MaxUsers
        /\ pending' = IF out.resp = Passed
                      THEN [pending EXCEPT ![p] = [op |-> "register", doc |-> out.doc]]
                      ELSE pending
        /\ UNCHANGED <<bookings, nextId, setup_availability, pricing, users, nextUser, quote>>

\* user_register from user_ref.set on
register_write(p) ==
    /\ pending[p].op = "register"
    /\ AddUser(pending[p].doc)
    /\ pending' = [pending EXCEPT ![p] = Idle]
    /\ UNCHANGED <<bookings, nextId, setup_availability, pricing, quote>>

(***************************************************************************)
(* The store at the start, and the specifications.                         *)
(***************************************************************************)
NoQuote == [setup_type |-> "", duration |-> 0, players |-> 0, result |-> Raised("")]

\* two registered users (user_register), nothing else stored
RegisteredUsers ==
    [u \in {1, 2} |-> [email |-> IF u = 1 THEN "a@example.com" ELSE "b@example.com"]]

Init ==
    /\ bookings = <<>>
    /\ nextId = 1
    /\ setup_availability = Absent
    /\ pricing = Absent
    /\ users = RegisteredUsers
    /\ nextUser = 3
    /\ pending = [p \in Procs |-> Idle]
    /\ quote = NoQuote

\* every handler is served alone, from its first read to its last write
Next ==
    \/ \E cred \in Creds, data \in CreateBodies : create_booking(cred, data)
    \/ \E cred \in AdminCreds, id \in BookingIds, data \in UpdateBodies :
           update_booking(cred, id, data)
    \/ \E cred \in Creds, id \in BookingIds, data \in UpdateBodies :
           update_user_booking(cred, id, data)
    \/ \E cred \in AdminCreds, id \in BookingIds : delete_booking(cred, id)
    \/ \E cred \in Creds, id \in BookingIds : delete_user_booking(cred, id)
    \/ \E cred \in Creds, date \in Dates : get_availability(cred, date)
    \/ get_setup_availability
    \/ \E cred \in Creds, data \in SetupBodies : update_setup_availability(cred, data)
    \/ \E booking_id \in LookupIds, email \in CheckEmails :
           check_booking(booking_id, email)

Spec == Init /\ [][Next]_vars

\* the rate table and calculate_price alone
NextPrice ==
    \/ get_pricing
    \/ \E cred \in Creds, data \in PricingBodies : update_pricing(cred, data)
    \/ \E setup_type \in SetupTypes, duration \in 1..MaxDuration, players \in 1..MaxPlayers :
           PriceQuote(setup_type, duration, players)

SpecPrice == Init /\ [][NextPrice]_vars

\* one setup enabled, as update_setup_availability leaves the record when it
\* switches the other three off
OneSetup == [k \in SetupKeys |-> k = "ps5_setup_1"]

InitRace ==
    /\ bookings = <<>>
    /\ nextId = 1
    /\ setup_availability = OneSetup
    /\ pricing = Absent
    /\ users = RegisteredUsers
    /\ nextUser = 3
    /\ pending = [p \in Procs |-> Idle]
    /\ quote = NoQuote

RaceCreds == {UserToken(1), UserToken(2)}

RaceTargets == {<<"2025-06-01", T1400>>, <<"2025-06-01", T1500>>}

RaceCreateBodies ==
    {[setup |-> "individual", players |-> 3, date |-> t[1], time |-> t[2],
      duration |-> 2] : t \in RaceTargets}

RaceUpdateBodies == {CancelBody} \cup {[date |-> t[1], time |-> t[2]] : t \in RaceTargets}

\* requests served side by side: between the reads of one and its write the
\* other may read and write
NextRace ==
    \/ \E p \in Procs, cred \in RaceCreds, data \in RaceCreateBodies :
           create_check(p, cred, data)
    \/ \E p \in Procs : create_write(p)
    \/ \E p \in Procs, cred \in RaceCreds, id \in BookingIds, data \in RaceUpdateBodies :
           update_check(p, cred, id, data)
    \/ \E p \in Procs : update_write(p)

SpecRace == InitRace /\ [][NextRace]_vars

\* the store before anyone registered
InitRegister ==
    /\ bookings = <<>>
    /\ nextId = 1
    /\ setup_availability = Absent
    /\ pricing = Absent
    /\ users = <<>>
    /\ nextUser = 1
    /\ pending = [p \in Procs |-> Idle]
    /\ quote = NoQuote

\* registrations served side by side
NextRegister ==
    \/ \E p \in Procs, data \in RegisterBodies : register_check(p, data)
    \/ \E p \in Procs : register_write(p)

SpecRegister == InitRegister /\ [][NextRegister]_vars

\* the rate table after GET /api/pricing and an update that adds a rate for
\* racing_simulator
ResolvePricing ==
    [k \in DOMAIN default_pricing \cup {"racing_simulator"} |->
        IF k = "racing_simulator" THEN 200 ELSE default_pricing[k]]

\* the setup names of the bookings handed to the resolver: one that starts
\* with 'ps5', one of the two single setups, one that is neither
ResolveSetups == {"ps5_specific", "racing_simulator", "individual"}

\* the booking documents create_booking and the cancel leave for two slots of
\* one date
ResolveDocs ==
    {[user_id |-> 1, email |-> "a@example.com", setup |-> setup, players |-> 1,
      date |-> "2025-06-01", time |-> time, duration |-> 1,
      price |-> ResolvePricing[setup], status |-> status] :
        setup \in ResolveSetups, time \in {T1400, T1500},
        status \in {"confirmed", "cancelled"}}

TwoSetups == [k \in SetupKeys |-> k \in {"ps5_setup_1", "racing_simulator"}]

\* the stores get_available_time_slots is called on: up to MaxBookings
\* bookings, the flags absent or with two setups enabled
InitResolve ==
    /\ \E n \in 0..MaxBookings :
           /\ bookings \in [1..n -> ResolveDocs]
           /\ nextId = n + 1
    /\ setup_availability \in {Absent, TwoSetups}
    /\ pricing = ResolvePricing
    /\ users = RegisteredUsers
    /\ nextUser = 3
    /\ pending = [p \in Procs |-> Idle]
    /\ quote = NoQuote

NextResolve == \E date \in Dates : ResolveQuote(date)

SpecResolve == InitResolve /\ [][NextResolve]_vars

\* the operations behind admin_required, asked with and without an admin
\* token, beside the requests that fill the store
NextAdmin ==
    \/ \E data \in CreateBodies : create_booking(UserToken(1), data)
    \/ \E cred \in LacksAdminCreds \cup {AdminToken}, id \in BookingIds,
          data \in UpdateBodies : update_booking(cred, id, data)
    \/ \E cred \in LacksAdminCreds \cup {AdminToken}, id \in BookingIds :
           delete_booking(cred, id)
    \/ get_setup_availability
    \/ \E cred \in LacksAdminCreds \cup {AdminToken}, data \in SetupBodies :
           update_setup_availability(cred, data)
    \/ get_pricing
    \/ \E cred \in LacksAdminCreds \cup {AdminToken}, data \in PricingBodies :
           update_pricing(cred, data)

SpecAdmin == Init /\ [][NextAdmin]_vars

\* an empty store whose flags an admin has set before, or never
InitSerial ==
    /\ bookings = <<>>
    /\ nextId = 1
    /\ setup_availability \in {Absent, OneSetup, TwoSetups}
    /\ pricing = Absent
    /\ users = RegisteredUsers
    /\ nextUser = 3
    /\ pending = [p \in Procs |-> Idle]
    /\ quote = NoQuote

SerialBodies == {CancelBody} \cup {[date |-> t[1], time |-> t[2]] : t \in Targets}

\* the requests that write bookings, each served alone from its first read to
\* its last write, while nobody calls update_setup_availability
NextSerial ==
    \/ \E cred \in RaceCreds, data \in CreateBodies : create_booking(cred, data)
    \/ \E id \in BookingIds, data \in SerialBodies : update_booking(AdminToken, id, data)
    \/ \E cred \in RaceCreds, id \in BookingIds, data \in SerialBodies :
           update_user_booking(cred, id, data)
    \/ \E id \in BookingIds : delete_booking(AdminToken, id)
    \/ \E cred \in RaceCreds, id \in BookingIds : delete_user_booking(cred, id)
    \/ get_setup_availability

SpecSerial == InitSerial /\ [][NextSerial]_vars

(***************************************************************************)
(* What the claims speak of.                                               *)
(***************************************************************************)
Label(a, b) == <<a, b, ":", "0", "0">>

\* the 14 hourly labels 10:00 .. 23:00, written out
CanonicalLabels ==
    {Label("1", "0"), Label("1", "1"), Label("1", "2"), Label("1", "3"), Label("1", "4"),
     Label("1", "5"), Label("1", "6"), Label("1", "7"), Label("1", "8"), Label("1", "9"),
     Label("2", "0"), Label("2", "1"), Label("2", "2"), Label("2", "3")}

\* the bookings stored for a date and slot whose status is not 'cancelled'
NonCancelledAt(bks, date, slot) ==
    {id \in DOMAIN bks :
        bks[id].date = date /\ bks[id].time = slot /\ bks[id].status # "cancelled"}

\* the number of setups the record enables (all four when there is no record)
EnabledCount(doc) ==
    IF doc = Absent THEN 4 ELSE Cardinality({k \in DOMAIN doc : doc[k] = TRUE})

\* the hour a label starts with
HourOf(label) == PyInt(SplitFirst(label)).value

(***************************************************************************)
(* C1: for every date, a canonical slot is in get_available_time_slots(date)*)
(* exactly when the number of bookings stored for that date and slot whose *)
(* status is not 'cancelled' is strictly less than the number of enabled   *)
(* setups; a slot whose count equals that number is left out.              *)
(***************************************************************************)
C1_AvailableIffBelowCapacity ==
    \A date \in Dates, slot \in CanonicalLabels :
        (slot \in Range(get_available_time_slots(date)))
            <=> (Cardinality(NonCancelledAt(bookings, date, slot))
                     < EnabledCount(setup_availability))

\* a slot filled exactly to the number of enabled setups, and left out
C1_Witness ==
    \E date \in Dates, slot \in CanonicalLabels :
        /\ EnabledCount(setup_availability) >= 1
        /\ Cardinality(NonCancelledAt(bookings, date, slot))
               = EnabledCount(setup_availability)
        /\ slot \notin Range(get_available_time_slots(date))

(***************************************************************************)
(* C2: for every date, get_available_time_slots(date) lists canonical      *)
(* labels only, in strictly ascending hour order (so none twice); there    *)
(* are 14 canonical labels, the hours 10 to 23.                            *)
(***************************************************************************)
C2_SortedCanonicalSubset ==
    /\ Cardinality(CanonicalLabels) = 14
    /\ {HourOf(l) : l \in CanonicalLabels} = 10..23
    /\ \A date \in Dates :
           LET r == get_available_time_slots(date)
           IN  /\ \A i \in DOMAIN r : r[i] \in CanonicalLabels
               /\ \A i, j \in DOMAIN r : i < j => HourOf(r[i]) < HourOf(r[j])

\* a date with some slots listed and some left out
C2_Witness ==
    \E date \in Dates :
        /\ Len(get_available_time_slots(date)) \in 1..13
        /\ \E id \in DOMAIN bookings : bookings[id].date = date

(***************************************************************************)
(* C3: a booking's status changes only along confirmed -> cancelled,       *)
(* confirmed -> rescheduled, rescheduled -> cancelled and rescheduled ->   *)
(* rescheduled; a cancelled booking never gets another status.             *)
(***************************************************************************)
AllowedStatusChange(old, new) ==
    \/ old = new
    \/ <<old, new>> \in {<<"confirmed", "cancelled">>, <<"confirmed", "rescheduled">>,
                         <<"rescheduled", "cancelled">>, <<"rescheduled", "rescheduled">>}

\* C3: every step leaves the status of a stored booking as it was or changes
\* it along confirmed -> cancelled, confirmed -> rescheduled, rescheduled ->
\* cancelled or rescheduled -> rescheduled; none leaves cancelled
C3_StatusTransitions ==
    [][\A id \in DOMAIN bookings \cap DOMAIN bookings' :
           AllowedStatusChange(bookings[id].status, bookings'[id].status)]_vars

(***************************************************************************)
(* C4: the availability check and the write are separate steps, so two     *)
(* requests for one date and slot can both pass the check and both write,  *)
(* and the slot then holds more non-cancelled bookings than there are      *)
(* enabled setups (C4_Witness is such a state).  The check itself is not   *)
(* at fault: whenever a step takes a slot above the number of enabled      *)
(* setups, it is the write of a request whose slot was no longer available *)
(* when it wrote, its check having passed earlier.                         *)
(***************************************************************************)
C4_OverbookingOnlyByStaleWrite ==
    [][\A date \in Dates, slot \in CanonicalLabels :
           (/\ Cardinality(NonCancelledAt(bookings, date, slot))
                   <= EnabledCount(setup_availability)
            /\ Cardinality(NonCancelledAt(bookings', date, slot))
                   > EnabledCount(setup_availability'))
           => \E p \in Procs :
                  /\ create_write(p) \/ update_write(p)
                  /\ slot \notin Range(get_available_time_slots(date))]_vars

\* two bookings made by create_booking in one slot, one setup enabled
C4_Witness ==
    \E date \in Dates, slot \in CanonicalLabels :
        /\ EnabledCount(setup_availability) = 1
        /\ \E a, b \in NonCancelledAt(bookings, date, slot) :
               /\ a # b
               /\ bookings[a].status = "confirmed"
               /\ bookings[b].status = "confirmed"

\* the same by two reschedules into one slot
C4_RescheduleWitness ==
    \E date \in Dates, slot \in CanonicalLabels :
        /\ EnabledCount(setup_availability) = 1
        /\ \E a, b \in NonCancelledAt(bookings, date, slot) :
               /\ a # b
               /\ bookings[a].status = "rescheduled"
               /\ bookings[b].status = "rescheduled"

(***************************************************************************)
(* C5: a complete create request of a user whose time is not in            *)
(* get_available_time_slots(date) is answered 400 'Selected time slot is   *)
(* not available'.  Every step that stores a new booking stores exactly    *)
(* one and leaves the bookings already stored as they were; it is a create *)
(* answered 201 whose time was in get_available_time_slots(date), and the  *)
(* new booking has status 'confirmed', the requester's user id, the        *)
(* requested setup, date and time, and the price of the rate table (rate * *)
(* players * duration for 'individual', rate * duration otherwise).        *)
(***************************************************************************)
ExpectedPrice(doc, setup, duration, players) ==
    LET rate == (IF doc = Absent THEN default_pricing ELSE doc)[setup]
    IN  IF setup = "individual" THEN rate * players * duration ELSE rate * duration

C5_Unavailable ==
    \A u \in DOMAIN users, data \in CreateBodies :
        (/\ required_fields \subseteq DOMAIN data
         /\ data.time \notin Range(get_available_time_slots(data.date)))
        => CreateResponse(UserToken(u), data)
               = Resp(400, "Selected time slot is not available")

C5_Step ==
    (DOMAIN bookings' \ DOMAIN bookings # {}) =>
        \E id \in DOMAIN bookings' \ DOMAIN bookings :
            /\ DOMAIN bookings' = DOMAIN bookings \cup {id}
            /\ \A old \in DOMAIN bookings : bookings'[old] = bookings[old]
            /\ bookings'[id].status = "confirmed"
            /\ \E cred \in Creds, data \in CreateBodies :
                   /\ create_booking(cred, data)
                   /\ CreateResponse(cred, data) = Resp(201, "")
                   /\ data.time \in Range(get_available_time_slots(data.date))
                   /\ bookings'[id].user_id = cred.payload.user_id
                   /\ bookings'[id].setup = data.setup
                   /\ bookings'[id].date = data.date
                   /\ bookings'[id].time = data.time
                   /\ bookings'[id].price
                          = ExpectedPrice(pricing, data.setup, data.duration, data.players)

\* C5: a create for an unlisted slot is answered 400 in every state, and a
\* step that stores a booking stores exactly one, confirmed, for a listed slot
C5_CreateChecksThenAddsOne == []C5_Unavailable /\ [][C5_Step]_vars

\* a booking made by create_booking (individual, 2 hours, 3 players: 720) in
\* a slot that is now full, so that the next create there is refused
C5_Witness ==
    \E id \in DOMAIN bookings :
        /\ bookings[id].status = "confirmed"
        /\ bookings[id].price = 720
        /\ bookings[id].time \notin Range(get_available_time_slots(bookings[id].date))
        /\ CreateResponse(UserToken(2),
                          [setup |-> "individual", players |-> 3,
                           date |-> bookings[id].date, time |-> bookings[id].time,
                           duration |-> 2])
               = Resp(400, "Selected time slot is not available")

(***************************************************************************)
(* C6: a step that cancels a booking that was not cancelled lowers the     *)
(* tally get_available_time_slots keeps for the booking's date and slot by *)
(* one and leaves the tally of every other slot of that date as it was; if *)
(* the slot held no more bookings than there are enabled setups it is      *)
(* listed afterwards.  A step that stores a new booking leaves its slot    *)
(* with no more bookings than enabled setups: so a create followed at once *)
(* by the cancel of that booking leaves the slot listed again.             *)
(***************************************************************************)
Tally(bks, date, slot) == SlotBookings(bks, date)[slot].total

C6_CancelStep ==
    \A id \in DOMAIN bookings \cap DOMAIN bookings' :
        (bookings[id].status # "cancelled" /\ bookings'[id].status = "cancelled") =>
            LET date == bookings[id].date
                time == bookings[id].time
                before == SlotBookings(bookings, date)
                after == SlotBookings(bookings', date)
            IN  /\ \A slot \in CanonicalLabels :
                       after[slot].total = IF slot = time THEN before[slot].total - 1
                                           ELSE before[slot].total
                /\ (before[time].total <= EnabledCount(setup_availability))
                       => time \in Range(AvailableSlots(bookings', setup_availability',
                                                        date))

C6_CreateStep ==
    \A id \in DOMAIN bookings' \ DOMAIN bookings :
        Tally(bookings', bookings'[id].date, bookings'[id].time)
            <= EnabledCount(setup_availability')

\* C6: every step is a cancel that frees its slot by one, a create that keeps
\* its slot within the enabled setups, or neither
C6_CancelFreesTheSlot == [][C6_CancelStep /\ C6_CreateStep]_vars

\* one setup enabled; a cancelled booking whose slot is listed again, next to
\* a slot of the same date that a booking still fills
C6_Witness ==
    \E id, other \in DOMAIN bookings :
        /\ EnabledCount(setup_availability) = 1
        /\ bookings[id].status = "cancelled"
        /\ bookings[id].time \in Range(get_available_time_slots(bookings[id].date))
        /\ bookings[other].status # "cancelled"
        /\ bookings[other].date = bookings[id].date
        /\ bookings[other].time \notin Range(get_available_time_slots(bookings[id].date))

(***************************************************************************)
(* C7: a user who does not own a booking is answered 403 by                *)
(* update_user_booking (cancel, reschedule or any other body) and by       *)
(* delete_user_booking, and no step that changes or removes a booking is   *)
(* such a request on it.  An admin is never refused for the owner's sake:  *)
(* cancel and delete of any stored booking are answered 200, and a         *)
(* reschedule is answered as the owner's own reschedule would be.          *)
(***************************************************************************)
C7_NonOwnerForbidden ==
    \A id \in DOMAIN bookings, u \in DOMAIN users :
        u # bookings[id].user_id =>
            /\ \A data \in UpdateBodies :
                   UserUpdateResponse(UserToken(u), id, data)
                       = Resp(403, "Unauthorized access")
            /\ UserDeleteResponse(UserToken(u), id) = Resp(403, "Unauthorized access")

C7_AdminAnyOwner ==
    \A id \in DOMAIN bookings :
        /\ AdminUpdateResponse(AdminToken, id, CancelBody) = Resp(200, "")
        /\ AdminDeleteResponse(AdminToken, id) = Resp(200, "")
        /\ \A data \in RescheduleBodies :
               AdminUpdateResponse(AdminToken, id, data)
                   = UserUpdateResponse(UserToken(bookings[id].user_id), id, data)

C7_NonOwnerStep ==
    \A id \in DOMAIN bookings :
        (id \notin DOMAIN bookings' \/ bookings'[id] # bookings[id]) =>
            \A u \in DOMAIN users :
                u # bookings[id].user_id =>
                    /\ ~delete_user_booking(UserToken(u), id)
                    /\ \A data \in UpdateBodies :
                           ~update_user_booking(UserToken(u), id, data)

\* C7: a non-owner is refused with 403 and changes nothing; an admin is not
\* refused whoever the owner is
C7_OwnerOrAdminOnly ==
    [](C7_NonOwnerForbidden /\ C7_AdminAnyOwner) /\ [][C7_NonOwnerStep]_vars

\* bookings of two owners, one of them rescheduled; each owner is refused on
\* the other's booking
C7_Witness ==
    \E a, b \in DOMAIN bookings :
        /\ bookings[a].user_id # bookings[b].user_id
        /\ bookings[a].status = "rescheduled"
        /\ UserUpdateResponse(UserToken(bookings[b].user_id), a, CancelBody).code = 403
        /\ UserDeleteResponse(UserToken(bookings[a].user_id), b).code = 403

(***************************************************************************)
(* C8: the time of every stored booking is one of the 14 canonical labels. *)
(***************************************************************************)
C8_TimeIsCanonical ==
    \A id \in DOMAIN bookings : bookings[id].time \in CanonicalLabels

\* a booking that was created and then moved to another slot
C8_Witness ==
    \E id \in DOMAIN bookings :
        /\ bookings[id].status = "rescheduled"
        /\ bookings[id].time = T1500
        /\ bookings[id].date = "2025-06-01"

(***************************************************************************)
(* C9: a reschedule (by an admin, or by the owner) of a stored booking to  *)
(* a time whose hour is below 10 or above 23 (09:00, 24:00) is answered    *)
(* 400 'Invalid time slot. Hours must be between 10 AM and 11 PM', never   *)
(* 'Selected time slot is not available', in every state of the store and  *)
(* for every date asked for; no step that changes a stored booking (its    *)
(* date, time or status) is such a request on it.                          *)
(***************************************************************************)
HourOutOfRange == {T0900, T2400}

InvalidTimeResponse ==
    Resp(400, "Invalid time slot. Hours must be between 10 AM and 11 PM")

C9_InvalidTime ==
    \A id \in DOMAIN bookings, date \in Dates, time \in HourOutOfRange :
        /\ AdminUpdateResponse(AdminToken, id, [date |-> date, time |-> time])
               = InvalidTimeResponse
        /\ UserUpdateResponse(UserToken(bookings[id].user_id), id,
                              [date |-> date, time |-> time])
               = InvalidTimeResponse

C9_InvalidTimeStep ==
    \A id \in DOMAIN bookings \cap DOMAIN bookings' :
        (bookings'[id] # bookings[id]) =>
            \A date \in Dates, time \in HourOutOfRange :
                /\ ~update_booking(AdminToken, id, [date |-> date, time |-> time])
                /\ ~update_user_booking(UserToken(bookings[id].user_id), id,
                                        [date |-> date, time |-> time])

Rates == IF pricing = Absent THEN default_pricing ELSE pricing

\* C10: calculate_price is rate * players * duration for individual and
\* rate * duration otherwise; 720 and 800 for the two default-rate examples
C10_PriceFormula ==
    /\ \A setup_type \in DOMAIN Rates, duration \in 1..MaxDuration,
          players \in 1..MaxPlayers :
           calculate_price(setup_type, duration, players)
               = Returned(IF setup_type = "individual"
                          THEN Rates[setup_type] * players * duration
                          ELSE Rates[setup_type] * duration)
    /\ (pricing = Absent \/ pricing = default_pricing) =>
           /\ calculate_price("individual", 2, 3) = Returned(720)
           /\ \A players \in 1..MaxPlayers :
                  calculate_price("squad", 2, players) = Returned(800)

\* calculate_price was asked for squad, 2 hours, 3 players under the default
\* rates and returned 800
C10_Witness ==
    /\ pricing = Absent
    /\ quote = [setup_type |-> "squad", duration |-> 2, players |-> 3,
                result |-> Returned(800)]

(***************************************************************************)
(* C11: calculate_price raises KeyError for a setup type that is no key of *)
(* the rate table; a complete create by a registered user with such a      *)
(* setup type for a listed slot is answered 500 with that error, and no    *)
(* step that stores a booking is such a request: every booking stored has  *)
(* a setup type of the table.                                              *)
(***************************************************************************)
UnknownSetup(setup_type) == setup_type \notin DOMAIN BasePrices(pricing)

C11_Raises ==
    /\ \A setup_type \in SetupTypes, duration \in 1..MaxDuration,
          players \in 1..MaxPlayers :
           UnknownSetup(setup_type) =>
               calculate_price(setup_type, duration, players) = Raised("KeyError")
    /\ \A u \in DOMAIN users, data \in CreateBodies :
           (/\ required_fields \subseteq DOMAIN data
            /\ UnknownSetup(data.setup)
            /\ data.time \in Range(get_available_time_slots(data.date)))
           => CreateResponse(UserToken(u), data) = Resp(500, "KeyError")

C11_Step ==
    (DOMAIN bookings' \ DOMAIN bookings # {}) =>
        /\ \A id \in DOMAIN bookings' \ DOMAIN bookings :
               ~UnknownSetup(bookings'[id].setup)
        /\ \A cred \in Creds, data \in CreateBodies :
               (required_fields \subseteq DOMAIN data /\ UnknownSetup(data.setup))
               => ~create_booking(cred, data)

\* C11: pricing an unknown setup type raises, the create that asked for it is
\* answered 500 and stores nothing
C11_UnknownSetupAborts == []C11_Raises /\ [][C11_Step]_vars

\* a booking is stored, the 14:00 slot of 2025-06-01 is still listed, and a
\* create for it with the setup type 'vr' is answered 500
C11_Witness ==
    /\ bookings # <<>>
    /\ T1400 \in Range(get_available_time_slots("2025-06-01"))
    /\ CreateResponse(UserToken(1),
                      [setup |-> "vr", players |-> 3, date |-> "2025-06-01",
                       time |-> T1400, duration |-> 2])
           = Resp(500, "KeyError")

(***************************************************************************)
(* C12: the cancel of a booking whose status is 'cancelled' already, by    *)
(* the admin or by the owner, is answered 200 and the fields it writes     *)
(* leave the document as it was; no step that changes a cancelled booking  *)
(* is a cancel of it.  So the state after a cancel is the state after two. *)
(***************************************************************************)
C12_Recancel ==
    \A id \in DOMAIN bookings :
        bookings[id].status = "cancelled" =>
            LET admin == AdminUpdateOutcome(AdminToken, id, CancelBody)
                owner == UserUpdateOutcome(UserToken(bookings[id].user_id), id, CancelBody)
            IN  /\ admin.resp = Passed
                /\ owner.resp = Passed
                /\ AdminUpdateResponse(AdminToken, id, CancelBody) = Resp(200, "")
                /\ UserUpdateResponse(UserToken(bookings[id].user_id), id, CancelBody)
                       = Resp(200, "")
                /\ Merge(bookings[id], admin.update) = bookings[id]
                /\ Merge(bookings[id], owner.update) = bookings[id]

C12_Step ==
    \A id \in DOMAIN bookings :
        (/\ bookings[id].status = "cancelled"
         /\ (id \notin DOMAIN bookings' \/ bookings'[id] # bookings[id]))
        => /\ ~update_booking(AdminToken, id, CancelBody)
           /\ ~update_user_booking(UserToken(bookings[id].user_id), id, CancelBody)

\* C12: cancelling a cancelled booking succeeds and changes nothing
C12_CancelIdempotent == []C12_Recancel /\ [][C12_Step]_vars

\* a cancelled booking next to a booking that is not cancelled; the cancel of
\* the first is answered 200 again
C12_Witness ==
    \E id, other \in DOMAIN bookings :
        /\ bookings[id].status = "cancelled"
        /\ bookings[other].status # "cancelled"
        /\ AdminUpdateResponse(AdminToken, id, CancelBody) = Resp(200, "")

(***************************************************************************)
(* C13: for an id and an email both given, check_booking answers 200 with  *)
(* the booking exactly when a booking with that id is stored and its email *)
(* equals the given one character for character; it answers 403 when the   *)
(* booking is stored under another email (one that differs by case only    *)
(* included) and 404 when no booking has the id.  No step that changes the *)
(* store is a check_booking.                                               *)
(***************************************************************************)
C13_Lookup ==
    \A booking_id \in BookingIds, email \in CheckEmails \ {""} :
        LET response == CheckResponse(booking_id, email)
        IN  /\ (response.code = 200) <=>
                   (booking_id \in DOMAIN bookings /\ bookings[booking_id].email = email)
            /\ response.code = 200 => response.booking = bookings[booking_id]
            /\ (booking_id \in DOMAIN bookings /\ bookings[booking_id].email # email)
                   => response = [code |-> 403, error |-> "Invalid credentials"]
            /\ booking_id \notin DOMAIN bookings
                   => response = [code |-> 404, error |-> "Booking not found"]

C13_Step ==
    (vars' # vars) =>
        \A booking_id \in LookupIds, email \in CheckEmails :
            ~check_booking(booking_id, email)

\* C13: the lookup answers 200, 403 or 404 as the id and the email decide, and
\* changes nothing
C13_LookupByIdAndEmail == []C13_Lookup /\ [][C13_Step]_vars

\* a stored booking found under its email and refused under another, and an
\* id that no longer names a booking
C13_Witness ==
    \E id \in DOMAIN bookings, gone \in BookingIds \ DOMAIN bookings :
        /\ gone < nextId
        /\ CheckResponse(id, "a@example.com").code = 200
        /\ CheckResponse(id, "A@example.com").code = 403
        /\ CheckResponse(id, "b@example.com").code = 403
        /\ CheckResponse(gone, "a@example.com").code = 404

(***************************************************************************)
(* C14: no two user documents have the same email, in every state that     *)
(* registrations served side by side reach, and a registration with an     *)
(* email that a user document has is answered 400 'User already exists'.   *)
(***************************************************************************)
C14_EmailsUnique ==
    /\ \A a, b \in DOMAIN users : a # b => users[a].email # users[b].email
    /\ \A data \in RegisterBodies :
           (/\ "phone" \in DOMAIN data
            /\ \E u \in DOMAIN users : users[u].email = data.email)
           => RegisterResponse(data) = Resp(400, "User already exists")

(***************************************************************************)
(* C15: when the setup-availability record is absent or enables all four   *)
(* setups, get_available_time_slots of a date with no booking stored for   *)
(* it is the list of the 14 canonical labels, 10:00 first and 23:00 last.  *)
(***************************************************************************)
C15_AllSlotsWhenEmpty ==
    \A date \in Dates :
        (/\ \/ setup_availability = Absent
            \/ /\ DOMAIN setup_availability = SetupKeys
               /\ \A k \in SetupKeys : setup_availability[k] = TRUE
         /\ \A id \in DOMAIN bookings : bookings[id].date # date)
        => LET r == get_available_time_slots(date)
           IN  /\ Len(r) = 14
               /\ Range(r) = CanonicalLabels
               /\ r[1] = Label("1", "0")
               /\ r[14] = Label("2", "3")
               /\ \A i \in 1..13 : HourOf(r[i]) + 1 = HourOf(r[i + 1])

\* the record is stored with all four setups enabled, one date has a booking
\* and the other has none and lists 14 slots
C15_Witness ==
    /\ setup_availability # Absent
    /\ \A k \in SetupKeys : setup_availability[k] = TRUE
    /\ \E id \in DOMAIN bookings : bookings[id].date = "2025-06-01"
    /\ \A id \in DOMAIN bookings : bookings[id].date # "2025-06-02"
    /\ Len(get_available_time_slots("2025-06-02")) = 14

(***************************************************************************)
(* C16: a step that removes a booking document is a delete of it by the    *)
(* admin or by its owner, removes that document only, leaves every other   *)
(* booking as it was, and takes the booking out of the resolver's tally of *)
(* its slot (when it was counted there) and of no other.  An id that was   *)
(* given out and names no document never names one again; for such an id   *)
(* the lookup, the reschedule, the cancel and the delete, by the admin and *)
(* by every user, are answered 404, and no step that changes the store is  *)
(* a delete of it.                                                         *)
(***************************************************************************)
C16_Gone ==
    \A id \in BookingIds \ DOMAIN bookings :
        /\ \A email \in CheckEmails \ {""} : CheckResponse(id, email).code = 404
        /\ AdminDeleteResponse(AdminToken, id) = Resp(404, "Booking not found")
        /\ \A data \in {CancelBody} \cup RescheduleBodies :
               AdminUpdateResponse(AdminToken, id, data) = Resp(404, "Booking not found")
        /\ \A u \in DOMAIN users :
               /\ UserDeleteResponse(UserToken(u), id) = Resp(404, "Booking not found")
               /\ \A data \in {CancelBody} \cup RescheduleBodies :
                      UserUpdateResponse(UserToken(u), id, data)
                          = Resp(404, "Booking not found")

C16_DeleteStep ==
    \A id \in DOMAIN bookings \ DOMAIN bookings' :
        /\ bookings' = [other \in DOMAIN bookings \ {id} |-> bookings[other]]
        /\ \/ delete_booking(AdminToken, id)
           \/ delete_user_booking(UserToken(bookings[id].user_id), id)
        /\ \A date \in Dates :
               LET before == SlotBookings(bookings, date)
                   after == SlotBookings(bookings', date)
               IN  \A slot \in CanonicalLabels :
                       after[slot].total
                           = IF /\ date = bookings[id].date
                                /\ slot = bookings[id].time
                                /\ bookings[id].status # "cancelled"
                             THEN before[slot].total - 1
                             ELSE before[slot].total

C16_StaysGone ==
    /\ \A id \in 1..(nextId - 1) : id \notin DOMAIN bookings => id \notin DOMAIN bookings'
    /\ (vars' # vars) =>
           \A id \in BookingIds \ DOMAIN bookings :
               /\ ~delete_booking(AdminToken, id)
               /\ \A u \in DOMAIN users : ~delete_user_booking(UserToken(u), id)

\* C16: a delete removes exactly its booking, for good; everything asked of
\* the id afterwards is answered 404
C16_DeleteRemovesForGood == []C16_Gone /\ [][C16_DeleteStep /\ C16_StaysGone]_vars

\* a booking was deleted, another one is stored; the delete of the first is
\* answered 404 now
C16_Witness ==
    \E gone \in 1..(nextId - 1), id \in DOMAIN bookings :
        /\ gone \notin DOMAIN bookings
        /\ AdminDeleteResponse(AdminToken, gone) = Resp(404, "Booking not found")
        /\ UserDeleteResponse(UserToken(bookings[id].user_id), gone)
               = Resp(404, "Booking not found")

(***************************************************************************)
(* C17: a step that changes a stored booking and leaves it 'rescheduled'   *)
(* changes its date, time and status only and leaves the owner, the email, *)
(* the setup, the players, the duration, the price, every other booking    *)
(* and the rest of the store as they were.  A reschedule, by the admin or  *)
(* by the owner, that passes its checks writes the date and time asked for *)
(* and the status 'rescheduled'; one answered 'Selected time slot is not   *)
(* available' carries no fields to write.                                  *)
(***************************************************************************)
C17_Refused ==
    \A id \in DOMAIN bookings, data \in RescheduleBodies :
        LET admin == AdminUpdateOutcome(AdminToken, id, data)
            owner == UserUpdateOutcome(UserToken(bookings[id].user_id), id, data)
        IN  /\ admin.resp = Resp(400, "Selected time slot is not available")
                   => DOMAIN admin = {"resp"}
            /\ owner.resp = Resp(400, "Selected time slot is not available")
                   => DOMAIN owner = {"resp"}
            /\ admin.resp = Passed
                   => admin.update = [date |-> data.date, time |-> data.time,
                                      status |-> "rescheduled"]
            /\ owner.resp = Passed => owner.update = admin.update

C17_Step ==
    \A id \in DOMAIN bookings \cap DOMAIN bookings' :
        (bookings'[id] # bookings[id] /\ bookings'[id].status = "rescheduled") =>
            /\ bookings' = [bookings EXCEPT ![id] =
                               [@ EXCEPT !.date = bookings'[id].date,
                                         !.time = bookings'[id].time,
                                         !.status = "rescheduled"]]
            /\ UNCHANGED <<nextId, setup_availability, pricing, users, nextUser>>
            /\ \A other \in DOMAIN bookings \ {id} : bookings'[other] = bookings[other]
            /\ \A k \in {"user_id", "email", "setup", "players", "duration", "price"} :
                   /\ k \in DOMAIN bookings[id]
                   /\ bookings'[id][k] = bookings[id][k]

\* C17: a reschedule writes date, time and status only, and a refused one
\* writes nothing
C17_RescheduleFrame == []C17_Refused /\ [][C17_Step]_vars

\* a booking moved to the other date with its price of 720 kept, next to a
\* booking whose slot is full, so that moving the first there is refused
C17_Witness ==
    \E id, other \in DOMAIN bookings :
        /\ bookings[id].status = "rescheduled"
        /\ bookings[id].date = "2025-06-02"
        /\ bookings[id].price = 720
        /\ bookings[other].date = "2025-06-01"
        /\ AdminUpdateResponse(AdminToken, id,
                               [date |-> bookings[other].date, time |-> bookings[other].time])
               = Resp(400, "Selected time slot is not available")

(***************************************************************************)
(* C18: get_available_time_slots depends on the bookings only through the  *)
(* number of non-cancelled bookings of each slot: for every store of       *)
(* bookings naming ps5_specific, racing_simulator or individual, the       *)
(* result lists a canonical slot exactly when that number is below the     *)
(* number of enabled setups, and it is the result for the same store with  *)
(* every booking renamed to any one of the setup names.                    *)
(***************************************************************************)
Renamed(bks, setup) == [id \in DOMAIN bks |-> [bks[id] EXCEPT !.setup = setup]]

C18_SetupNamesDoNotMatter ==
    \A date \in Dates :
        LET r == get_available_time_slots(date)
        IN  /\ \A slot \in CanonicalLabels :
                   slot \in Range(r) <=>
                       Cardinality(NonCancelledAt(bookings, date, slot))
                           < EnabledCount(setup_availability)
            /\ \A setup \in ResolveSetups :
                   AvailableSlots(Renamed(bookings, setup), setup_availability, date) = r

\* two bookings of racing_simulator that are not cancelled in the 14:00 slot,
\* four setups enabled, and the call for the date has listed 14:00
C18_Witness ==
    /\ setup_availability = Absent
    /\ \E a, b \in DOMAIN bookings :
           /\ a # b
           /\ \A id \in {a, b} : /\ bookings[id].setup = "racing_simulator"
                                 /\ bookings[id].time = T1400
                                 /\ bookings[id].status = "confirmed"
    /\ "date" \in DOMAIN quote
    /\ quote.date = "2025-06-01"
    /\ T1400 \in Range(quote.result)

(***************************************************************************)
(* C19: the resolver and the checks of create and reschedule read the      *)
(* setup-availability record as it is stored now.  A step that changes a   *)
(* stored record is an admin's update and leaves the record merged with    *)
(* the body; in the state it leaves, and in every state, a slot is listed  *)
(* exactly when its non-cancelled bookings are fewer than the setups the   *)
(* stored record enables, a create for it by a registered user is answered *)
(* 201 when it is listed and 400 when not, and so is a reschedule (200).   *)
(***************************************************************************)
C19_ReadsStoredFlags ==
    \A t \in Targets :
        LET listed == Cardinality(NonCancelledAt(bookings, t[1], t[2]))
                          < EnabledCount(setup_availability)
            body == [setup |-> "individual", players |-> 3, date |-> t[1],
                     time |-> t[2], duration |-> 2]
        IN  /\ listed <=> t[2] \in Range(get_available_time_slots(t[1]))
            /\ listed <=> t[2] \in Range(AvailabilityResponse(UserToken(1), t[1]).available_slots)
            /\ CreateResponse(UserToken(1), body)
                   = IF listed THEN Resp(201, "")
                     ELSE Resp(400, "Selected time slot is not available")
            /\ \A id \in DOMAIN bookings :
                   AdminUpdateResponse(AdminToken, id, [date |-> t[1], time |-> t[2]])
                       = IF listed THEN Resp(200, "")
                         ELSE Resp(400, "Selected time slot is not available")

C19_UpdateStep ==
    (setup_availability' # setup_availability /\ setup_availability # Absent) =>
        \E data \in SetupBodies :
            /\ update_setup_availability(AdminToken, data)
            /\ setup_availability' = Merge(setup_availability, data)

\* C19: every read of the flags sees the record as the last admin update left it
C19_FlagsVisibleAtOnce == []C19_ReadsStoredFlags /\ [][C19_UpdateStep]_vars

\* two bookings were made in a slot while four setups were enabled, the admin
\* then left one enabled: the slot is not listed and a create for it is refused
C19_Witness ==
    \E t \in Targets :
        /\ EnabledCount(setup_availability) = 1
        /\ Cardinality(NonCancelledAt(bookings, t[1], t[2])) = 2
        /\ t[2] \notin Range(get_available_time_slots(t[1]))
        /\ CreateResponse(UserToken(2),
                          [setup |-> "individual", players |-> 3, date |-> t[1],
                           time |-> t[2], duration |-> 2])
               = Resp(400, "Selected time slot is not available")

(***************************************************************************)
(* C20.  update_booking, delete_booking, update_pricing and                *)
(* update_setup_availability stand behind admin_required.  Asked with no   *)
(* Authorization header, or with a token that has no admin claim, each of  *)
(* them answers what admin_required answers, a 401, whatever the store     *)
(* holds and whichever booking or body is named; and no step that changes  *)
(* a booking, the rate table or the setup flags is such a request.         *)
(***************************************************************************)
C20_Rejected ==
    \A cred \in LacksAdminCreds :
        LET refusal == admin_required(cred)
        IN  /\ refusal.code \in {401, 403}
            /\ \A id \in BookingIds :
                   /\ AdminDeleteResponse(cred, id) = refusal
                   /\ \A data \in UpdateBodies :
                          AdminUpdateOutcome(cred, id, data) = [resp |-> refusal]
            /\ SetupUpdateResponse(cred) = refusal
            /\ PricingUpdateResponse(cred) = refusal

C20_Step ==
    (<<bookings, pricing, setup_availability>>' # <<bookings, pricing, setup_availability>>) =>
        \A cred \in LacksAdminCreds :
            /\ \A id \in BookingIds :
                   /\ ~delete_booking(cred, id)
                   /\ \A data \in UpdateBodies : ~update_booking(cred, id, data)
            /\ \A data \in SetupBodies : ~update_setup_availability(cred, data)
            /\ \A data \in PricingBodies : ~update_pricing(cred, data)

\* C20: without an admin claim the admin-only operations are refused and change nothing
C20_AdminOnlyRejected == []C20_Rejected /\ [][C20_Step]_vars

\* a user's booking, stored flags and a stored rate table, all of which an
\* admin may change: the owner's own token is refused on each admin route
C20_Witness ==
    /\ setup_availability # Absent
    /\ pricing # Absent
    /\ \E id \in DOMAIN bookings :
           /\ bookings[id].user_id = 1
           /\ bookings[id].status = "confirmed"
           /\ AdminUpdateResponse(AdminToken, id, CancelBody) = Resp(200, "")
           /\ AdminUpdateResponse(UserToken(1), id, CancelBody) = Resp(401, "Invalid token")
           /\ AdminDeleteResponse(AdminToken, id) = Resp(200, "")
           /\ AdminDeleteResponse(NoCredential, id) = Resp(401, "Bearer token required")
    /\ SetupUpdateResponse(AdminToken) = Resp(200, "")
    /\ SetupUpdateResponse(UserToken(1)) = Resp(401, "Invalid token")
    /\ PricingUpdateResponse(AdminToken) = Resp(200, "")
    /\ PricingUpdateResponse(UserToken(1)) = Resp(401, "Invalid token")

(***************************************************************************)
(* C21.  When each request is served alone and nobody changes the setup    *)
(* flags, no date and slot ever holds more non-cancelled bookings than the *)
(* record enables setups.  A step that brings a cancelled booking back is  *)
(* a reschedule: the booking leaves it with status 'rescheduled', in a     *)
(* slot that had room before the step and is within the number of enabled  *)
(* setups after it.                                                        *)
(***************************************************************************)
C21_WithinCapacity ==
    \A date \in Dates, slot \in CanonicalLabels :
        Cardinality(NonCancelledAt(bookings, date, slot)) <= EnabledCount(setup_availability)

C21_RevivalStep ==
    /\ EnabledCount(setup_availability') = EnabledCount(setup_availability)
    /\ \A id \in DOMAIN bookings \cap DOMAIN bookings' :
           (bookings[id].status = "cancelled" /\ bookings'[id].status # "cancelled") =>
               LET date == bookings'[id].date
                   slot == bookings'[id].time
               IN  /\ bookings'[id].status = "rescheduled"
                   /\ Cardinality(NonCancelledAt(bookings, date, slot))
                          < EnabledCount(setup_availability)
                   /\ Cardinality(NonCancelledAt(bookings', date, slot))
                          <= EnabledCount(setup_availability')

\* C21: served one at a time with fixed flags, no slot is ever overbooked
C21_NoOverbookingWhenSerial == []C21_WithinCapacity /\ [][C21_RevivalStep]_vars

\* one setup enabled; a slot is full with a booking that was rescheduled into
\* it, and a second booking made for the same slot stands cancelled beside it
C21_Witness ==
    /\ EnabledCount(setup_availability) = 1
    /\ \E a, b \in DOMAIN bookings :
           /\ a > b
           /\ bookings[a].status = "rescheduled"
           /\ bookings[b].status = "cancelled"
           /\ bookings[a].date = bookings[b].date
           /\ bookings[a].time = bookings[b].time
           /\ NonCancelledAt(bookings, bookings[a].date, bookings[a].time) = {a}

(***************************************************************************)
(* C22.  The availability check of a reschedule counts the booking that is *)
(* moved like any other.  For a stored booking that is not cancelled and a *)
(* slot of its own date that holds as many non-cancelled bookings as the   *)
(* record enables setups, the booking itself among them when the slot is   *)
(* its own, a reschedule to that slot is answered 400 'Selected time slot  *)
(* is not available', asked by an admin or by the owner.  A step that      *)
(* changes the date, time or status of a booking by a reschedule moves it  *)
(* to a slot that had room before the step, the booking itself counted.    *)
(***************************************************************************)
C22_FullSlotRefused ==
    \A id \in DOMAIN bookings :
        bookings[id].status # "cancelled" =>
            \A t \in {x \in Targets : x[1] = bookings[id].date} :
                Cardinality(NonCancelledAt(bookings, t[1], t[2]))
                        >= EnabledCount(setup_availability) =>
                    LET data == [date |-> t[1], time |-> t[2]]
                        refusal == Resp(400, "Selected time slot is not available")
                    IN  /\ AdminUpdateResponse(AdminToken, id, data) = refusal
                        /\ UserUpdateResponse(UserToken(bookings[id].user_id), id, data)
                               = refusal

C22_MoveStep ==
    \A id \in DOMAIN bookings \cap DOMAIN bookings' :
        (bookings'[id] # bookings[id] /\ bookings'[id].status = "rescheduled") =>
            Cardinality(NonCancelledAt(bookings, bookings'[id].date, bookings'[id].time))
                < EnabledCount(setup_availability)

\* C22: a reschedule into a full slot of the booking's date, its own included, is refused
C22_RescheduleCountsItself == []C22_FullSlotRefused /\ [][C22_MoveStep]_vars

\* one setup enabled, and a confirmed booking alone in its slot: the slot is
\* full by the booking itself and its reschedule to where it stands is refused
C22_Witness ==
    \E id \in DOMAIN bookings :
        /\ bookings[id].status = "confirmed"
        /\ EnabledCount(setup_availability) = 1
        /\ NonCancelledAt(bookings, bookings[id].date, bookings[id].time) = {id}
        /\ AdminUpdateResponse(AdminToken, id,
                               [date |-> bookings[id].date, time |-> bookings[id].time])
               = Resp(400, "Selected time slot is not available")

(***************************************************************************)
(* C23.  The counting loop of get_available_time_slots adds a booking to   *)
(* the tally of its 'time' and reads no duration.  For a stored booking    *)
(* that is not cancelled and lasts more than one hour, the tally of its    *)
(* start slot and of every later slot it runs over is the number of        *)
(* non-cancelled bookings that start in that slot; a later slot is listed, *)
(* and a create for it answered 201, exactly when fewer bookings start in  *)
(* it than the record enables setups.                                      *)
(***************************************************************************)
\* the slots after its start that a booking runs over
RunsOver(booking_data) ==
    {FormatSlot(h) : h \in {k \in 10..23 :
        /\ k > HourOf(booking_data.time)
        /\ k < HourOf(booking_data.time) + booking_data.duration}}

\* C23: a booking counts in its start slot only; the slots it runs over stay bookable
C23_StartSlotOnly ==
    \A id \in DOMAIN bookings :
        (bookings[id].status # "cancelled" /\ bookings[id].duration > 1) =>
            LET date == bookings[id].date
                tally == SlotBookings(bookings, date)
                listed == Range(get_available_time_slots(date))
            IN  /\ tally[bookings[id].time].total
                       = Cardinality(NonCancelledAt(bookings, date, bookings[id].time))
                /\ RunsOver(bookings[id]) # {}
                /\ \A slot \in RunsOver(bookings[id]) :
                       LET starts == Cardinality(NonCancelledAt(bookings, date, slot))
                           body == [setup |-> "individual", players |-> 3, date |-> date,
                                    time |-> slot, duration |-> 2]
                       IN  /\ tally[slot].total = starts
                           /\ slot \in listed <=> starts < EnabledCount(setup_availability)
                           /\ CreateResponse(UserToken(1), body)
                                  = IF starts < EnabledCount(setup_availability)
                                    THEN Resp(201, "")
                                    ELSE Resp(400, "Selected time slot is not available")

\* one setup enabled: a two-hour booking made for 14:00 and never touched, and
\* a later one made for 15:00 of the same date while the first is running
C23_Witness ==
    /\ EnabledCount(setup_availability) = 1
    /\ \E a, b \in DOMAIN bookings :
           /\ a < b
           /\ bookings[a].status = "confirmed"
           /\ bookings[b].status = "confirmed"
           /\ bookings[a].date = bookings[b].date
           /\ bookings[a].time = T1400
           /\ bookings[a].duration = 2
           /\ bookings[b].time = T1500

====
